---- MODULE Spec2Model ----
(***************************************************************************)
(* A state-machine model of psi-collect:                                   *)
(*   - the Image tag store of assigner/image_ref.py (Spec),                *)
(*   - the download loop of collector/collect.py (SpecCollect),            *)
(*   - the storm catalog of collector/ConnectionHandler.py (SpecCatalog),  *)
(*   - Tar.download_url of tagger/Tar.py (SpecTar).                        *)
(* Python strings are modelled as sequences of one-character strings so    *)
(* that lower(), re.fullmatch, int() and tuple unpacking are computed.     *)
(***************************************************************************)
EXTENDS Integers, Sequences, FiniteSets, TLC

VARIABLES
    outer,      \* outer[h][u]: the inner dict that dict h holds under key u
    inner,      \* inner[r][t]: the value dict object r holds under key t
    skip,       \* skip[h]: the skippers set object of holder h
    own,        \* own[i]: instance i has its own taggers/skippers attributes
    last,       \* the last call made on an Image and what it returned/raised
    nops,       \* number of mutating calls made so far
    pc,         \* collect.py: position in the script
    si,         \* collect.py: index of the current storm
    ti,         \* collect.py: index of the current tar of the storm
    tarCounts,  \* collect.py: number of tars each storm lists
    optDownload, \* collect.py: OPTIONS.download
    download_incomplete, \* collect.py: the loop flag
    attempts,   \* collect.py: download attempts made for the current tar
    downloaded, \* collect.py: the <<storm, tar>> pairs whose download returned
    raised,     \* collect.py: the exception that ended the script, if any
    catalog,    \* ConnectionHandler: the tuples re.findall yields from r.text
    storm_list, \* ConnectionHandler.storm_list
    storm_list_last_pattern, \* ConnectionHandler.storm_list_last_pattern
    clast,      \* ConnectionHandler: the last call and what it returned/raised
    ncalls,     \* ConnectionHandler: number of calls made so far
    files,      \* Tar: files[path] is what the file system holds at path
    tar_file_path, \* Tar: tar_file_path[t] of the Tar object named t
    tlast,      \* Tar: the last download_url call and what it did
    tcalls      \* Tar: number of download_url calls made so far

imgVars ==
    <<outer, inner, skip, own, last, nops>>

colVars ==
    <<pc, si, ti, tarCounts, optDownload, download_incomplete, attempts,
      downloaded, raised>>

catVars ==
    <<catalog, storm_list, storm_list_last_pattern, clast, ncalls>>

tarVars ==
    <<files, tar_file_path, tlast, tcalls>>

vars ==
    <<outer, inner, skip, own, last, nops, pc, si, ti, tarCounts,
      optDownload, download_incomplete, attempts, downloaded, raised,
      catalog, storm_list, storm_list_last_pattern, clast, ncalls,
      files, tar_file_path, tlast, tcalls>>

----------------------------------------------------------------------------
(* Bounds and input sets *)

MaxOps ==
    2

NumStorms ==
    2

MaxTars ==
    2

MaxAttempts ==
    2

\* Longest catalog page considered
MaxCatalog ==
    2

\* Calls made on one ConnectionHandler
MaxCalls ==
    3

\* Calls of Tar.download_url
MaxDownloads ==
    2

Images ==
    {"X", "Y"}

Users ==
    {"A", "B"}

\* The class object Image itself holds the dicts every instance starts with.
ClassHolder ==
    "Image"

Holders ==
    {ClassHolder} \cup Images

TagDamage ==
    <<"d", "a", "m", "a", "g", "e">>

TagId ==
    <<"i", "d">>

Tags ==
    {TagDamage, TagId}

RawTrue ==
    <<"t", "r", "u", "e">>

RawTrueUpper ==
    <<"T", "R", "U", "E">>

RawFalse ==
    <<"f", "a", "l", "s", "e">>

RawZeroSeven ==
    <<"0", "7">>

RawSevenA ==
    <<"7", "a">>

RawContents ==
    {RawTrue, RawTrueUpper, RawFalse, RawZeroSeven, RawSevenA}

----------------------------------------------------------------------------
(* Python values: <<type name, payload>> *)

PyBool(b) ==
    <<"bool", b>>

PyInt(n) ==
    <<"int", n>>

PyStr(s) ==
    <<"str", s>>

PyNone ==
    <<"NoneType", "None">>

py_type(v) ==
    v[1]

\* Not a Python value: what a read finds when the key is not in the dict.
NoKey ==
    <<"KeyError", "KeyError">>

\* dict(): a dict is a function from the keys it holds
EmptyDict ==
    <<>>

\* d[k] = v on a dict
dict_set(d, k, v) ==
    (k :> v) @@ d

----------------------------------------------------------------------------
(* String functions *)

LowerChar(c) ==
    CASE c = "T" -> "t"
      [] c = "R" -> "r"
      [] c = "U" -> "u"
      [] c = "E" -> "e"
      [] c = "F" -> "f"
      [] c = "A" -> "a"
      [] c = "L" -> "l"
      [] c = "S" -> "s"
      [] OTHER -> c

str_lower(s) ==
    [k \in 1..Len(s) |-> LowerChar(s[k])]

IsDigit(c) ==
    c \in {"0", "1", "2", "3", "4", "5", "6", "7", "8", "9"}

DigitVal(c) ==
    CASE c = "0" -> 0 [] c = "1" -> 1 [] c = "2" -> 2 [] c = "3" -> 3
      [] c = "4" -> 4 [] c = "5" -> 5 [] c = "6" -> 6 [] c = "7" -> 7
      [] c = "8" -> 8 [] c = "9" -> 9

\* re.match in place of re.fullmatch: only a prefix has to be digits.
match_digits(s) ==
    /\ Len(s) >= 1
    /\ IsDigit(s[1])

\* re.fullmatch('\\d+', content)
fullmatch_digits(s) ==
    /\ Len(s) >= 1
    /\ \A k \in 1..Len(s) : IsDigit(s[k])

\* int(content) raises ValueError unless content is a numeral; of the strings
\* over the characters used here, the numerals are the digit strings.
int_raises(s) ==
    \/ Len(s) = 0
    \/ \E k \in 1..Len(s) : ~IsDigit(s[k])

RECURSIVE py_int(_)
\* int(content) for a digit string
py_int(s) ==
    IF Len(s) = 0
    THEN 0
    ELSE 10 * py_int(SubSeq(s, 1, Len(s) - 1)) + DigitVal(s[Len(s)])

\* bool(content) for a str: true iff non-empty
py_bool(s) ==
    Len(s) > 0

\* a or b, for two str operands
py_or(a, b) ==
    IF py_bool(a) THEN a ELSE b

----------------------------------------------------------------------------
(* Image: attribute lookup and reads *)

\* self.taggers / self.skippers: the instance attribute if save() set one,
\* else the class attribute shared by every instance.
holder(i) ==
    IF own[i] THEN i ELSE ClassHolder

taggers(i) ==
    outer[holder(i)]

skippers(i) ==
    skip[holder(i)]

get_taggers(i) ==
    DOMAIN taggers(i)

\* taggers[u][t] as seen through image i (NoKey when u or t is missing)
tag_value(i, u, t) ==
    IF u \notin DOMAIN taggers(i)
    THEN NoKey
    ELSE IF t \notin DOMAIN inner[taggers(i)[u]]
         THEN NoKey
         ELSE inner[taggers(i)[u]][t]

\* All of image i's tag state, by value
view(i) ==
    [u \in Users |-> [t \in Tags |-> tag_value(i, u, t)]]

----------------------------------------------------------------------------
(* Image.add_tag / remove_tag / update_tag / save *)

\* Lines 47-53 of add_tag: what is stored for a raw content string.
\* ('true' or 'false') is evaluated first and is the str 'true'.
add_tag_content(content) ==
    IF str_lower(content) = py_or(RawTrue, RawFalse)
    THEN PyBool(py_bool(content))
    ELSE IF fullmatch_digits(content)
         THEN PyInt(py_int(content))
         ELSE PyStr(content)

\* Lines 47-53 raise only where int() does.
add_tag_raises(content) ==
    /\ str_lower(content) # py_or(RawTrue, RawFalse)
    /\ fullmatch_digits(content)
    /\ int_raises(content)

\* "if user_id not in self.get_taggers(): self.taggers[user_id] = dict()":
\* the dict object that self.taggers[user_id] names afterwards.  A dict
\* created here is a new object, named by the dict and key it was created for.
user_dict(i, u) ==
    IF u \notin get_taggers(i) THEN <<holder(i), u>> ELSE taggers(i)[u]

\* The dict replaced by one holding only the new user
outer_ensured_reset(i, u) ==
    IF u \notin get_taggers(i)
    THEN [outer EXCEPT ![holder(i)] = dict_set(EmptyDict, u, <<holder(i), u>>)]
    ELSE outer

outer_ensured(i, u) ==
    IF u \notin get_taggers(i)
    THEN [outer EXCEPT ![holder(i)] = dict_set(outer[holder(i)], u, <<holder(i), u>>)]
    ELSE outer

inner_ensured(i, u) ==
    IF u \notin get_taggers(i)
    THEN dict_set(inner, <<holder(i), u>>, EmptyDict)
    ELSE inner

\* The entry deleted instead of set to None
remove_tag_delete(d, t) ==
    [k \in (DOMAIN d) \ {t} |-> d[k]]

\* Line 70: self.taggers[user_id][tag] = None, on the dict object d
remove_tag_store(d, t) ==
    dict_set(d, t, PyNone)

\* An int is added to the int already stored instead of replacing it
add_tag_store_accumulate(d, t, content) ==
    IF /\ t \in DOMAIN d
       /\ py_type(d[t]) = "int"
       /\ py_type(add_tag_content(content)) = "int"
    THEN dict_set(d, t, PyInt(d[t][2] + add_tag_content(content)[2]))
    ELSE dict_set(d, t, add_tag_content(content))

\* Line 55: self.taggers[user_id][tag] = content, on the dict object d
add_tag_store(d, t, content) ==
    dict_set(d, t, add_tag_content(content))

\* A call of method op on image i with its arguments, and what it returned
\* ("None", "self", "True", "False") or raised.
Call(op, i, u, t, c, r) ==
    [op |-> op, img |-> i, user |-> u, tag |-> t, content |-> c, ret |-> r]

\* Lines 44-55: what add_tag does to the tag state
add_tag_stores(i, u, t, content) ==
    /\ outer' = outer_ensured(i, u)
    /\ inner' = IF add_tag_raises(content)
                THEN inner_ensured(i, u)
                ELSE [inner_ensured(i, u) EXCEPT ![user_dict(i, u)] =
                         add_tag_store(inner_ensured(i, u)[user_dict(i, u)], t, content)]
    /\ UNCHANGED <<skip, own>>

add_tag(i, u, t, content) ==
    /\ nops < MaxOps
    /\ add_tag_stores(i, u, t, content)
    /\ last' = Call("add_tag", i, u, t, content,
                     IF add_tag_raises(content) THEN "ValueError" ELSE "None")
    /\ nops' = nops + 1

AddTag(i, u, t, content) ==
    /\ add_tag(i, u, t, content)
    /\ UNCHANGED <<colVars, catVars, tarVars>>

\* update_tag calls add_tag with the same arguments.
UpdateTag(i, u, t, content) ==
    /\ add_tag(i, u, t, content)
    /\ UNCHANGED <<colVars, catVars, tarVars>>

\* Lines 67-70: what remove_tag does to the tag state
remove_tag_stores(i, u, t) ==
    /\ outer' = outer_ensured(i, u)
    /\ inner' = [inner_ensured(i, u) EXCEPT ![user_dict(i, u)] =
                     remove_tag_store(inner_ensured(i, u)[user_dict(i, u)], t)]
    /\ UNCHANGED <<skip, own>>

RemoveTag(i, u, t) ==
    /\ nops < MaxOps
    /\ remove_tag_stores(i, u, t)
    /\ last' = Call("remove_tag", i, u, t, <<>>, "None")
    /\ nops' = nops + 1
    /\ UNCHANGED <<colVars, catVars, tarVars>>

\* dict.copy() / set.copy(): a new container holding the same element objects
shallow_copy(d) ==
    d

Save(i) ==
    /\ skip' = [skip EXCEPT ![i] = shallow_copy(skippers(i))]
    /\ outer' = [outer EXCEPT ![i] = shallow_copy(taggers(i))]
    /\ own' = [own EXCEPT ![i] = TRUE]
    /\ last' = Call("save", i, "", <<>>, <<>>, "self")
    /\ UNCHANGED <<inner, nops>>
    /\ UNCHANGED <<colVars, catVars, tarVars>>

----------------------------------------------------------------------------
(* Image._sum_tag_values_by_users / all_user_tags_equal *)

\* Iterating a dict yields its keys.
dict_keys(d) ==
    DOMAIN d

\* "for tag, value in <dict>": each key, a str, is unpacked into two names,
\* which needs exactly two characters.
unpack_fails(key) ==
    Len(key) # 2

unpacked_value(key) ==
    PyStr(<<key[2]>>)

\* The keys the loops of lines 128-129 visit
visited_keys(i) ==
    UNION {dict_keys(inner[taggers(i)[u]]) : u \in get_taggers(i)}

\* [exc |-> what the call raises ("None": it returns), totals |-> tag_totals].
\* tag_totals starts empty; a key that unpacks binds value to a str, which
\* line 130 skips; a non-str value would index the empty dict (KeyError).
sum_tag_values_by_users(i) ==
    IF \E k \in visited_keys(i) : unpack_fails(k)
    THEN [exc |-> "ValueError", totals |-> <<>>]
    ELSE IF \E k \in visited_keys(i) : py_type(unpacked_value(k)) # "str"
         THEN [exc |-> "KeyError", totals |-> <<>>]
         ELSE [exc |-> "None", totals |-> <<>>]

\* The threshold off by one
not_enough_taggers_below_one(i) ==
    Cardinality(get_taggers(i)) < 1

\* Line 153
not_enough_taggers(i) ==
    Cardinality(get_taggers(i)) < 2

\* What all_user_tags_equal returns ("True"/"False") or raises
all_user_tags_equal(i) ==
    IF not_enough_taggers(i)
    THEN "NotEnoughTaggersError"
    ELSE IF sum_tag_values_by_users(i).exc # "None"
         THEN sum_tag_values_by_users(i).exc
         ELSE IF \E tag \in DOMAIN sum_tag_values_by_users(i).totals :
                    Cardinality(DOMAIN sum_tag_values_by_users(i).totals[tag]) > 2
              THEN "False"
              ELSE "True"

AllUserTagsEqual(i) ==
    /\ last' = Call("all_user_tags_equal", i, "", <<>>, <<>>, all_user_tags_equal(i))
    /\ UNCHANGED <<outer, inner, skip, own, nops>>
    /\ UNCHANGED <<colVars, catVars, tarVars>>

----------------------------------------------------------------------------
(* The tag store's specification *)

ImgInit ==
    /\ outer = [h \in Holders |-> EmptyDict]
    /\ inner = EmptyDict
    /\ skip = [h \in Holders |-> {}]
    /\ own = [i \in Images |-> FALSE]
    /\ last = Call("__init__", "X", "", <<>>, <<>>, "None")
    /\ nops = 0

ColIdle ==
    /\ pc = "idle"
    /\ si = 0
    /\ ti = 0
    /\ tarCounts = <<>>
    /\ optDownload = FALSE
    /\ download_incomplete = FALSE
    /\ attempts = 0
    /\ downloaded = {}
    /\ raised = "None"

\* No ConnectionHandler has been constructed.
CatIdle ==
    /\ catalog = <<>>
    /\ storm_list = <<>>
    /\ storm_list_last_pattern = <<>>
    /\ clast = [op |-> "idle"]
    /\ ncalls = 0

\* No Tar has been constructed.
TarIdle ==
    /\ files = <<>>
    /\ tar_file_path = <<>>
    /\ tlast = [op |-> "idle"]
    /\ tcalls = 0

Init ==
    /\ ImgInit
    /\ ColIdle
    /\ CatIdle
    /\ TarIdle

Next ==
    \/ \E i \in Images, u \in Users, t \in Tags, c \in RawContents : AddTag(i, u, t, c)
    \/ \E i \in Images, u \in Users, t \in Tags, c \in RawContents : UpdateTag(i, u, t, c)
    \/ \E i \in Images, u \in Users, t \in Tags : RemoveTag(i, u, t)
    \/ \E i \in Images : Save(i)
    \/ \E i \in Images : AllUserTagsEqual(i)

Spec ==
    Init /\ [][Next]_vars

----------------------------------------------------------------------------
(* collect.py: the download loop, lines 61-79 *)

\* What one call of tar.download_url can do: return, or raise.
Outcomes ==
    {"returns", "KeyboardInterrupt", "SystemExit", "URLError"}

\* Line 73: except (KeyboardInterrupt, SystemExit)
first_clause ==
    <<"KeyboardInterrupt", "SystemExit">>

\* bool() of a tuple: true iff non-empty
tuple_truth(tp) ==
    Len(tp) > 0

\* Line 76: "not (KeyboardInterrupt, SystemExit)" is the bool False.
second_clause ==
    ~ tuple_truth(first_clause)

\* Matching a raised exception against the value of an except expression:
\* a tuple of classes matches its members; a value that is no exception class
\* (here a bool) makes the match itself raise TypeError.
clause_match(clause_is_classes, classes, exc) ==
    IF clause_is_classes
    THEN IF \E k \in 1..Len(classes) : classes[k] = exc
         THEN "match"
         ELSE "no match"
    ELSE "TypeError"

\* Line 77: 'The download encountered an error: ' + e, str + exception
handler_print(exc) ==
    "TypeError"

\* A bare "except:" in place of the two clauses: everything is retried.
try_result_swallow(outcome) ==
    IF outcome = "returns" THEN "done" ELSE "retry"

\* How the try statement of lines 70-79 ends for one outcome of the call:
\* "done" (flag cleared), "retry" (slept, loop again) or the exception that
\* propagates out of the script.
try_result(outcome) ==
    IF outcome = "returns"
    THEN "done"
    ELSE IF clause_match(TRUE, first_clause, outcome) = "match"
         THEN outcome
         ELSE IF clause_match(FALSE, <<second_clause>>, outcome) = "TypeError"
              THEN "TypeError"
              ELSE IF handler_print(outcome) # "None"
                   THEN handler_print(outcome)
                   ELSE "retry"

\* Line 61
IfDownload ==
    /\ pc = "if_download"
    /\ pc' = IF optDownload THEN "for_storm" ELSE "exit"
    /\ UNCHANGED <<si, ti, tarCounts, optDownload, download_incomplete,
                   attempts, downloaded, raised>>
    /\ UNCHANGED <<imgVars, catVars, tarVars>>

\* Line 62
ForStorm ==
    /\ pc = "for_storm"
    /\ IF si < Len(tarCounts)
       THEN /\ si' = si + 1
            /\ ti' = 0
            /\ pc' = "for_tar"
       ELSE /\ pc' = "exit"
            /\ UNCHANGED <<si, ti>>
    /\ UNCHANGED <<tarCounts, optDownload, download_incomplete, attempts,
                   downloaded, raised>>
    /\ UNCHANGED <<imgVars, catVars, tarVars>>

\* Lines 63-67
ForTar ==
    /\ pc = "for_tar"
    /\ IF ti < tarCounts[si]
       THEN /\ ti' = ti + 1
            /\ download_incomplete' = TRUE
            /\ attempts' = 0
            /\ pc' = "while"
       ELSE /\ pc' = "for_storm"
            /\ UNCHANGED <<ti, download_incomplete, attempts>>
    /\ UNCHANGED <<si, tarCounts, optDownload, downloaded, raised>>
    /\ UNCHANGED <<imgVars, catVars, tarVars>>

\* Line 69
While ==
    /\ pc = "while"
    /\ pc' = IF download_incomplete THEN "try" ELSE "for_tar"
    /\ UNCHANGED <<si, ti, tarCounts, optDownload, download_incomplete,
                   attempts, downloaded, raised>>
    /\ UNCHANGED <<imgVars, catVars, tarVars>>

\* Lines 70-79
Try(outcome) ==
    /\ pc = "try"
    /\ attempts < MaxAttempts
    /\ attempts' = attempts + 1
    /\ downloaded' = IF outcome = "returns"
                     THEN downloaded \cup {<<si, ti>>}
                     ELSE downloaded
    /\ download_incomplete' = (try_result(outcome) # "done")
    /\ pc' = IF try_result(outcome) \in {"done", "retry"} THEN "while" ELSE "exit"
    /\ raised' = IF try_result(outcome) \in {"done", "retry"}
                 THEN raised
                 ELSE try_result(outcome)
    /\ UNCHANGED <<si, ti, tarCounts, optDownload>>
    /\ UNCHANGED <<imgVars, catVars, tarVars>>

ColInit ==
    /\ pc = "if_download"
    /\ si = 0
    /\ ti = 0
    /\ tarCounts \in [1..NumStorms -> 0..MaxTars]
    /\ optDownload \in BOOLEAN
    /\ download_incomplete = FALSE
    /\ attempts = 0
    /\ downloaded = {}
    /\ raised = "None"

InitCollect ==
    /\ ImgInit
    /\ ColInit
    /\ CatIdle
    /\ TarIdle

NextCollect ==
    \/ IfDownload
    \/ ForStorm
    \/ ForTar
    \/ While
    \/ \E outcome \in Outcomes : Try(outcome)

SpecCollect ==
    InitCollect /\ [][NextCollect]_vars

----------------------------------------------------------------------------
(* ConnectionHandler.py: the storm catalog, lines 40-92 *)

\* One tuple of re.findall(URL_STORMS_REGEX_PATTERN_INDEX, r.text)
StormEarl ==
    [storm_url |-> "earl/index.html", storm_id |-> <<"e", "a", "r", "l">>,
     storm_name |-> <<"E", "a", "r", "l">>, storm_year |-> <<"1", "0">>]

StormSally ==
    [storm_url |-> "s20/index.html", storm_id |-> <<"s", "2", "0">>,
     storm_name |-> <<"S", "a", "l">>, storm_year |-> <<"2", "0">>]

CatalogEntries ==
    {StormEarl, StormSally}

\* The pages the site can serve, as the list of tuples findall yields
Catalogs ==
    UNION {[1..n -> CatalogEntries] : n \in 0..MaxCatalog}

\* The default argument '.*'
PatAll ==
    <<".", "*">>

\* A text that is not a regular expression: an unclosed group
PatBad ==
    <<"(">>

\* The filter texts considered: '.*', literals, and one that does not compile
Patterns ==
    {PatAll, <<"A">>, <<"1", "0">>, <<"s", "2">>, <<"S", "A", "L">>, PatBad}

\* re.compile raises re.error on an unclosed group
re_error(p) ==
    /\ \E k \in 1..Len(p) : p[k] = "("
    /\ ~ \E k \in 1..Len(p) : p[k] = ")"

\* a occurs somewhere in s
is_substring(a, s) ==
    \E k \in 0..(Len(s) - Len(a)) : SubSeq(s, k + 1, k + Len(a)) = a

\* re.search without re.IGNORECASE
re_search_case_sensitive(p, s) ==
    IF p = PatAll THEN TRUE ELSE is_substring(p, s)

\* re.search of a pattern compiled with re.IGNORECASE: '.*' matches every
\* text, a literal matches the texts that contain it in any letter case
re_search(p, s) ==
    IF p = PatAll THEN TRUE ELSE is_substring(str_lower(p), str_lower(s))

\* Line 76: the pattern is searched in the id, the name and the year
storm_matches(p, e) ==
    \/ re_search(p, e.storm_id)
    \/ re_search(p, e.storm_name)
    \/ re_search(p, e.storm_year)

\* Line 64: self.storm_list = list()
fresh_list(old) ==
    <<>>

\* Lines 73-78: the loop over the tuples, appending the matching storms
RECURSIVE appended(_, _, _)
appended(list, cat, p) ==
    IF cat = <<>>
    THEN list
    ELSE appended(IF storm_matches(p, Head(cat))
                  THEN Append(list, Head(cat))
                  ELSE list,
                  Tail(cat), p)

\* generate_storm_list: the list is cleared and the pattern remembered before
\* re.compile can raise
generate_storm_list(cat, old, p) ==
    [storm_list |-> IF re_error(p)
                    THEN fresh_list(old)
                    ELSE appended(fresh_list(old), cat, p),
     storm_list_last_pattern |-> p,
     raises |-> re_error(p)]

\* The list is generated on every call.
needs_generate_always(search_re, last_pattern) ==
    TRUE

\* Line 88: if search_re != self.storm_list_last_pattern
needs_generate(search_re, last_pattern) ==
    search_re # last_pattern

CatCall(op, p, generated, exc, ret) ==
    [op |-> op, pattern |-> p, generated |-> generated, raised |-> exc,
     ret |-> ret]

GenerateStormList(p) ==
    /\ ncalls < MaxCalls
    /\ LET g == generate_storm_list(catalog, storm_list, p)
       IN  /\ storm_list' = g.storm_list
           /\ storm_list_last_pattern' = g.storm_list_last_pattern
           /\ clast' = CatCall("generate_storm_list", p, 1, g.raises, <<>>)
    /\ ncalls' = ncalls + 1
    /\ UNCHANGED catalog
    /\ UNCHANGED <<imgVars, colVars, tarVars>>

GetStormList(p) ==
    /\ ncalls < MaxCalls
    /\ IF needs_generate(p, storm_list_last_pattern)
       THEN LET g == generate_storm_list(catalog, storm_list, p)
            IN  /\ storm_list' = g.storm_list
                /\ storm_list_last_pattern' = g.storm_list_last_pattern
                /\ clast' = CatCall("get_storm_list", p, 1, g.raises,
                                    IF g.raises THEN <<>> ELSE g.storm_list)
       ELSE /\ clast' = CatCall("get_storm_list", p, 0, FALSE, storm_list)
            /\ UNCHANGED <<storm_list, storm_list_last_pattern>>
    /\ ncalls' = ncalls + 1
    /\ UNCHANGED catalog
    /\ UNCHANGED <<imgVars, colVars, tarVars>>

\* After ConnectionHandler(): __init__ has generated the list for '.*'
CatInit ==
    /\ catalog \in Catalogs
    /\ storm_list = generate_storm_list(catalog, <<>>, PatAll).storm_list
    /\ storm_list_last_pattern = PatAll
    /\ clast = CatCall("__init__", PatAll, 1, FALSE, <<>>)
    /\ ncalls = 0

InitCatalog ==
    /\ ImgInit
    /\ ColIdle
    /\ CatInit
    /\ TarIdle

NextCatalog ==
    \/ \E p \in Patterns : GenerateStormList(p)
    \/ \E p \in Patterns : GetStormList(p)

SpecCatalog ==
    InitCatalog /\ [][NextCatalog]_vars

----------------------------------------------------------------------------
(* tagger/Tar.py: Tar.download_url, lines 67-87 *)

\* tar_file_name of the Tar objects
TarNames ==
    {<<"t">>, <<"u">>}

\* output_file_dir_path
Dirs ==
    {<<"a", "/">>, <<"b", "/">>}

\* Line 74: output_file_dir_path + str(self.tar_file_name) + '.tar'
tar_path(dir, name) ==
    dir \o name \o <<".", "t", "a", "r">>

Paths ==
    {tar_path(d, n) : d \in Dirs, n \in TarNames}

\* os.path.isfile
isfile(fs, path) ==
    fs[path] # "absent"

\* urllib.request.urlretrieve returns, or raises before it opens the local
\* file (URLError), or after it has written part of it (ContentTooShortError)
RetrieveOutcomes ==
    {"returns", "URLError", "ContentTooShortError"}

urlretrieve(fs, path, outcome) ==
    CASE outcome = "returns" -> [fs EXCEPT ![path] = "fetched"]
      [] outcome = "URLError" -> fs
      [] outcome = "ContentTooShortError" -> [fs EXCEPT ![path] = "partial"]

\* Lines 76-87: nothing is done when overwrite is set
download_url(fs, path, overwrite, outcome) ==
    IF ~ overwrite
    THEN IF isfile(fs, path)
         THEN [files |-> fs, retrieved |-> FALSE, raised |-> "None"]
         ELSE [files |-> urlretrieve(fs, path, outcome), retrieved |-> TRUE,
               raised |-> IF outcome = "returns" THEN "None" ELSE outcome]
    ELSE [files |-> fs, retrieved |-> FALSE, raised |-> "None"]

DownloadUrl(t, dir, overwrite, outcome) ==
    /\ tcalls < MaxDownloads
    /\ LET path == tar_path(dir, t)
           d == download_url(files, path, overwrite, outcome)
       IN  /\ tar_file_path' = [tar_file_path EXCEPT ![t] = path]
           /\ files' = d.files
           /\ tlast' = [op |-> "download_url", tar |-> t, path |-> path,
                        overwrite |-> overwrite, before |-> files[path],
                        retrieved |-> d.retrieved, raised |-> d.raised]
    /\ tcalls' = tcalls + 1
    /\ UNCHANGED <<imgVars, colVars, catVars>>

\* After Tar(url): tar_file_path is declared but not yet assigned
TarInit ==
    /\ files \in [Paths -> {"absent", "stale"}]
    /\ tar_file_path = [t \in TarNames |-> <<>>]
    /\ tlast = [op |-> "__init__", tar |-> <<>>, path |-> <<>>,
                overwrite |-> FALSE, before |-> "absent",
                retrieved |-> FALSE, raised |-> "None"]
    /\ tcalls = 0

InitTar ==
    /\ ImgInit
    /\ ColIdle
    /\ CatIdle
    /\ TarInit

NextTar ==
    \E t \in TarNames, dir \in Dirs, overwrite \in BOOLEAN,
       outcome \in RetrieveOutcomes :
        DownloadUrl(t, dir, overwrite, outcome)

SpecTar ==
    InitTar /\ [][NextTar]_vars

----------------------------------------------------------------------------
(* Claims about the consensus query *)

IsQuery ==
    last.op = "all_user_tags_equal"

\* The distinct non-Text values the taggers of image i hold for tag t
NonTextValues(i, t) ==
    {tag_value(i, u, t) : u \in get_taggers(i)} \ ({NoKey} \cup {PyStr(c) : c \in RawContents})

TextValues(i, t) ==
    {tag_value(i, u, t) : u \in get_taggers(i)} \cap {PyStr(c) : c \in RawContents}

\* C1: whenever an image has at least 2 taggers and some tag has more than
\* one distinct non-Text value among them, all_user_tags_equal returns false.
C1_DisagreementReturnsFalse ==
    (/\ IsQuery
     /\ Cardinality(get_taggers(last.img)) >= 2
     /\ \E t \in Tags : Cardinality(NonTextValues(last.img, t)) > 1)
    => last.ret = "False"

\* C2: whenever an image has at least 2 taggers and every tag that has a
\* non-Text value has exactly one, all_user_tags_equal raises nothing and
\* returns true.
C2_AgreementReturnsTrue ==
    (/\ IsQuery
     /\ Cardinality(get_taggers(last.img)) >= 2
     /\ \E t \in Tags : Cardinality(NonTextValues(last.img, t)) = 1
     /\ \A t \in Tags : Cardinality(NonTextValues(last.img, t)) <= 1)
    => last.ret = "True"

\* C3: all_user_tags_equal raises NotEnoughTaggersError exactly when the image
\* has fewer than 2 tagger ids, and the call leaves taggers and skippers as
\* they were.
C3_NotEnoughTaggers ==
    /\ [](IsQuery =>
            (last.ret = "NotEnoughTaggersError"
                <=> Cardinality(get_taggers(last.img)) < 2))
    /\ [][last'.op = "all_user_tags_equal" =>
            UNCHANGED <<outer, inner, skip, own>>]_vars

C3_Witness ==
    /\ IsQuery
    /\ Cardinality(get_taggers(last.img)) = 1
    /\ last.ret = "NotEnoughTaggersError"

\* C6: Text values never influence consensus: with at least 2 taggers, some
\* Text-valued tag among them and no tag with two distinct non-Text values,
\* all_user_tags_equal returns true.
C6_TextTagsIgnored ==
    (/\ IsQuery
     /\ Cardinality(get_taggers(last.img)) >= 2
     /\ \E t \in Tags : TextValues(last.img, t) # {}
     /\ \A t \in Tags : Cardinality(NonTextValues(last.img, t)) <= 1)
    => last.ret = "True"

----------------------------------------------------------------------------
(* Claims about the tag mutations *)

\* The step is a call of add_tag, update_tag or remove_tag on image i.
Mutates(i) ==
    /\ nops' = nops + 1
    /\ last'.img = i

\* C4: add_tag with a raw value equal to "true" case-insensitively stores
\* Boolean true, and with one equal to "false" case-insensitively stores
\* Boolean false.
C4_BooleanLiterals ==
    last.op = "add_tag" =>
        /\ str_lower(last.content) = RawTrue
              => tag_value(last.img, last.user, last.tag) = PyBool(TRUE)
        /\ str_lower(last.content) = RawFalse
              => tag_value(last.img, last.user, last.tag) = PyBool(FALSE)

\* C5: a tag mutation on one image leaves every other image's taggers and
\* skippers unchanged.
C5_MutationConfined ==
    [][\A i \in Images, j \in Images :
          (i # j /\ Mutates(i)) =>
              /\ get_taggers(j)' = get_taggers(j)
              /\ view(j)' = view(j)
              /\ skippers(j)' = skippers(j)]_vars

RECURSIVE C8_Decimal(_, _)
\* The number a digit string denotes, read left to right
C8_Decimal(s, acc) ==
    IF s = <<>> THEN acc ELSE C8_Decimal(Tail(s), 10 * acc + DigitVal(Head(s)))

C8_IsBooleanText(c) ==
    str_lower(c) \in {RawTrue, RawFalse}

C8_Normalize(c) ==
    IF c # <<>> /\ \A k \in 1..Len(c) : IsDigit(c[k])
    THEN PyInt(C8_Decimal(c, 0))
    ELSE PyStr(c)

\* C8: add_tag and update_tag never raise, and a read of taggers[u][t] right
\* after gives the Integer a digit string denotes and the unchanged Text for
\* every other non-boolean string, whatever was stored before.
C8_ReadAfterAdd ==
    last.op = "add_tag" =>
        /\ last.ret = "None"
        /\ ~C8_IsBooleanText(last.content)
              => tag_value(last.img, last.user, last.tag) = C8_Normalize(last.content)

\* Two calls were made, the second an add_tag of "07" that wrote the Integer 7
\* over the only entry there is.
C8_Witness ==
    /\ last.op = "add_tag"
    /\ last.content = RawZeroSeven
    /\ nops = 2
    /\ tag_value(last.img, last.user, last.tag) = PyInt(7)
    /\ get_taggers(last.img) = {last.user}
    /\ DOMAIN inner[taggers(last.img)[last.user]] = {last.tag}

\* C9: once save() was called on image i, no add_tag, update_tag or
\* remove_tag on another image changes a tagger id or tag value seen
\* through i.
C9_SaveIsolates ==
    [][\A i \in Images, j \in Images :
          (i # j /\ own[i] /\ Mutates(j)) =>
              /\ get_taggers(i)' = get_taggers(i)
              /\ view(i)' = view(i)]_vars

----------------------------------------------------------------------------
(* Claims about the download loop *)

\* C10: a download attempt that fails with anything but an interrupt is
\* retried; only an interrupt ends the run with an exception.
C10_FailureIsRetried ==
    (pc = "exit" /\ raised # "None") => raised \in {"KeyboardInterrupt", "SystemExit"}

\* C11: a KeyboardInterrupt or SystemExit raised by a download attempt ends
\* the run with that exception, and once the run has ended with an exception
\* no further attempt is made and nothing more is downloaded.
C11_InterruptAborts ==
    /\ [][\A o \in {"KeyboardInterrupt", "SystemExit"} :
            Try(o) => (pc' = "exit" /\ raised' = o /\ downloaded' = downloaded)]_vars
    /\ [][raised # "None" =>
            (pc' = "exit" /\ attempts' = attempts /\ downloaded' = downloaded)]_vars

\* The interrupt arrived after an earlier archive had been downloaded.
C11_Witness ==
    /\ pc = "exit"
    /\ raised = "KeyboardInterrupt"
    /\ downloaded # {}

----------------------------------------------------------------------------
(* Claims about the storm catalog and the archive download *)

\* C12: get_storm_list regenerates the storm list only when the requested
\* filter text differs from the last-used one: a call whose pattern is the
\* pattern of the call before it does not invoke generate_storm_list, the
\* list a call returns is storm_list, and storm_list is always the list
\* generate_storm_list leaves for storm_list_last_pattern, which after a
\* call is the pattern of that call.
C12_Memoized ==
    /\ [](clast.op # "idle" =>
            /\ storm_list_last_pattern = clast.pattern
            /\ storm_list =
                   generate_storm_list(catalog, <<>>,
                                       storm_list_last_pattern).storm_list
            /\ (clast.op = "get_storm_list" /\ ~ clast.raised =>
                    clast.ret = storm_list))
    /\ [][(/\ ncalls' = ncalls + 1
           /\ clast'.op = "get_storm_list"
           /\ clast'.pattern = clast.pattern) =>
              (clast'.generated = 0 /\ storm_list' = storm_list)]_vars

\* A second call with the same literal pattern answered from the stored list.
C12_Witness ==
    /\ ncalls >= 2
    /\ clast.op = "get_storm_list"
    /\ clast.pattern = <<"1", "0">>
    /\ clast.generated = 0
    /\ clast.ret # <<>>
    /\ Len(clast.ret) < Len(catalog)

\* C13: download_url downloads whenever overwrite is set or no file exists
\* at the target path, and leaves an existing file untouched when overwrite
\* is not set.
C13_OverwriteHonoured ==
    tlast.op = "download_url" =>
        /\ tlast.retrieved = (tlast.overwrite \/ tlast.before = "absent")
        /\ (~ tlast.overwrite /\ tlast.before # "absent" =>
                files[tlast.path] = tlast.before)

\* The text s contains the text a, whatever the letter case.
C15_Contains(a, s) ==
    \E i \in 0..Len(s), j \in 0..Len(s) :
        /\ i <= j
        /\ str_lower(a) = [k \in 1..(j - i) |-> LowerChar(s[i + k])]

\* The entry matches the filter in its id, name or year; a text that is not
\* a regular expression matches nothing.
C15_Matches(p, e) ==
    /\ p # PatBad
    /\ \/ p = PatAll
       \/ C15_Contains(p, e.storm_id)
       \/ C15_Contains(p, e.storm_name)
       \/ C15_Contains(p, e.storm_year)

C15_Keep(e) ==
    C15_Matches(clast.pattern, e)

----------------------------------------------------------------------------
(* Further claims about the tag store *)

\* C14: add_tag/update_tag is idempotent: a call of add_tag that directly
\* follows a call of add_tag with the same image, user, tag and content
\* leaves taggers and skippers exactly as the first call left them.
C14_AddTagIdempotent ==
    [][(/\ nops' = nops + 1
        /\ last.op = "add_tag"
        /\ last'.op = "add_tag"
        /\ last'.img = last.img
        /\ last'.user = last.user
        /\ last'.tag = last.tag
        /\ last'.content = last.content) =>
           UNCHANGED <<outer, inner, skip, own>>]_vars

\* Two calls were made, the last add_tag(A, id, "07") on X, and the tag store
\* holds that one entry, the int 7, and nothing else.
C14_Witness ==
    /\ nops = 2
    /\ last = Call("add_tag", "X", "A", TagId, RawZeroSeven, "None")
    /\ get_taggers("X") = {"A"}
    /\ view("X")["A"] = [t \in Tags |-> IF t = TagId THEN PyInt(7) ELSE NoKey]

\* str(value) of a value that is not a str
C16_Repr(v) ==
    CASE py_type(v) = "bool" -> IF v[2] THEN "True" ELSE "False"
      [] py_type(v) = "int" -> ToString(v[2])
      [] OTHER -> "None"

\* The users of image i whose current value for tag t is v
C16_Holders(i, t, v) ==
    {u \in get_taggers(i) : tag_value(i, u, t) = v}

\* C16: for every tag and every non-Text value some user currently holds for
\* it, _sum_tag_values_by_users returns, and the count it reports under the
\* tag and the value's textual representation is the number of users who
\* currently hold that value.
C16_CountsHolders ==
    \A i \in Images, t \in Tags, u \in Users :
        LET v == tag_value(i, u, t)
            s == sum_tag_values_by_users(i)
        IN  (v # NoKey /\ py_type(v) # "str") =>
                /\ s.exc = "None"
                /\ t \in DOMAIN s.totals
                /\ C16_Repr(v) \in DOMAIN s.totals[t]
                /\ s.totals[t][C16_Repr(v)] = Cardinality(C16_Holders(i, t, v))

\* C17: a user who has added, updated or removed a tag on an image is a
\* tagger of it from then on: the call leaves the user in the image's tagger
\* ids, no step removes a tagger id from any image, and so the query raises
\* NotEnoughTaggersError only on an image that never had 2 taggers.
C17_TaggersKept ==
    /\ [](last.op \in {"add_tag", "remove_tag"} =>
            last.user \in get_taggers(last.img))
    /\ [][\A i \in Images : get_taggers(i) \subseteq get_taggers(i)']_vars
    /\ [][\A i \in Images :
            (Cardinality(get_taggers(i)) >= 2 /\ last'.op = "all_user_tags_equal"
             /\ last'.img = i) => last'.ret # "NotEnoughTaggersError"]_vars

\* An image with its own saved dict has both users as taggers, one of them
\* holding a tombstone, and the query on it did not raise the error.
C17_Witness ==
    /\ IsQuery
    /\ last.img = "X"
    /\ last.ret # "NotEnoughTaggersError"
    /\ own["X"]
    /\ get_taggers("X") = Users
    /\ \E u \in Users, t \in Tags : tag_value("X", u, t) = PyNone

\* Some add_tag, update_tag or remove_tag call on image i after which the
\* query on i gives the verdict
C18_MutationTo(i, verdict) ==
    /\ \E u \in Users, t \in Tags :
          \/ \E c \in RawContents : add_tag_stores(i, u, t, c)
          \/ remove_tag_stores(i, u, t)
    /\ all_user_tags_equal(i)' = verdict

\* C18: from a state where all_user_tags_equal returns true some tag mutation
\* leads to a state where it returns false, and from a state where it returns
\* false some tag mutation leads to a state where it returns true.
C18_NoTerminalLock ==
    \A i \in Images :
        /\ all_user_tags_equal(i) = "True" => ENABLED C18_MutationTo(i, "False")
        /\ all_user_tags_equal(i) = "False" => ENABLED C18_MutationTo(i, "True")

\* C19: a tombstone is tallied as a value of its own: when one user holds
\* None for a tag and another holds a bool or an int for it, the totals of
\* that tag list both "None" and the other value's text, and a user holding
\* only tombstones is among the tagger ids.
C19_TombstoneTallied ==
    \A i \in Images, t \in Tags, u \in Users :
        tag_value(i, u, t) = PyNone =>
            /\ u \in get_taggers(i)
            /\ \A w \in Users :
                  py_type(tag_value(i, w, t)) \in {"bool", "int"} =>
                      /\ sum_tag_values_by_users(i).exc = "None"
                      /\ t \in DOMAIN sum_tag_values_by_users(i).totals
                      /\ {"None", C16_Repr(tag_value(i, w, t))} \subseteq
                             DOMAIN sum_tag_values_by_users(i).totals[t]

====
